---- MODULE Spec2Model ----
(***************************************************************************)
(* Job/task orchestration engine of content-engine-v2.                     *)
(*                                                                         *)
(* State: the two persisted tables (jobs, tasks) behind DatabaseManager,   *)
(* and the position of every running ContentEngine.process_job call.       *)
(* Every await on db_manager is one step; each such call either returns or *)
(* raises (pool not initialised, connection lost), the number of raising   *)
(* calls being bounded by MaxDbFailures.                                    *)
(*                                                                         *)
(* Row ids are the creation index of the row (the code uses uuid4).        *)
(* Timestamps are abstracted to NULL / "ts".                               *)
(*                                                                         *)
(* Specifications:                                                         *)
(*   Spec        create_job followed by process_job calls of one host      *)
(*   SpecCreate  create_job alone, with either template, named or selected *)
(*   SpecSelect  AgentRegistry.find_best_agent over registries and tasks   *)
(*   SpecParse   TemplateLoader.parse_template over template files         *)
(*   SpecResolve the template resolution of create_job over requests       *)
(*   SpecNaming  ContentEngine._generate_job_names over request texts      *)
(*   SpecRegister AgentRegistry.register_agent_instance, call after call   *)
(*   SpecConcurrent two process_job calls for two jobs, interleaved        *)
(*   SpecSameJob    two process_job calls for one job, interleaved         *)
(*   SpecFair       one process_job call the event loop keeps resuming     *)
(***************************************************************************)
EXTENDS Integers, Sequences, FiniteSets, TLC

\* ---------------------------------------------------------------- bounds
MaxJobs == 1
MaxBlueprints == 2
MaxCalls == 3
MaxDbFailures == 3
MaxAgents == 3
MaxLines == 4
MaxWords == 4

\* ------------------------------------------------------------- constants
NULL == "null"

\* the categories in alphabetical order, as ORDER BY category would give them
CategoriesAlphabetical == <<"audio", "image", "script", "video">>

\* TaskCategory, in the execution order of TaskRunner.process_job
Categories == <<"script", "image", "audio", "video">>

CategorySet == {Categories[i] : i \in 1..Len(Categories)}

\* template names the tests rely on
TemplateNames == {"blog-post", "youtube-tutorial"}

\* a name no template file has
UnknownTemplate == "no-such-template"

\* callers of the engine: the host's own thread of control, and a second one
MainProc == "host"

Procs == {"host", "other"}

VARIABLES
    jobs,        \* jobs table: sequence of rows, index = id
    tasks,       \* tasks table: sequence of rows, index = id (creation order)
    proc,        \* per caller: position inside ContentEngine.process_job
    dbFailures,  \* number of db_manager calls that raised so far
    calls,       \* number of engine calls made so far
    created,     \* what the last create_job call was given and how it ended
    unit         \* a function looked at on its own: its arguments and result

vars == <<jobs, tasks, proc, dbFailures, calls, created, unit>>

\* ------------------------------------------------------ sequence helpers
Range(s) == {s[i] : i \in 1..Len(s)}

\* number of i <= n with s[i] = x
CountUpTo(s, n, x) == Cardinality({i \in 1..n : s[i] = x})

\* all sequences over S of length at most n
SeqsUpTo(S, n) == UNION {[1..k -> S] : k \in 0..n}

\* ------------------------------------------------------------ persistence
\* DatabaseManager.update_job_status: completed_at is written only when given
update_job_status(js, job_id, status, completed_at) ==
    IF job_id \notin 1..Len(js) THEN js
    ELSE IF completed_at # NULL
         THEN [js EXCEPT ![job_id].status = status,
                         ![job_id].completed_at = completed_at]
         ELSE [js EXCEPT ![job_id].status = status]

\* an UPDATE that leaves the error message out
update_task_status_without_message(ts, task_id, status, assigned_agent_id, started_at, completed_at, error_message) ==
    IF task_id \notin 1..Len(ts) THEN ts
    ELSE [ts EXCEPT ![task_id].status = status,
                    ![task_id].assigned_agent_id = assigned_agent_id,
                    ![task_id].started_at = started_at,
                    ![task_id].completed_at = completed_at,
                    ![task_id].error_message = NULL]

\* DatabaseManager.update_task_status: one UPDATE that sets all five columns,
\* the ones not passed being written as NULL
update_task_status(ts, task_id, status, assigned_agent_id, started_at, completed_at, error_message) ==
    IF task_id \notin 1..Len(ts) THEN ts
    ELSE [ts EXCEPT ![task_id].status = status,
                    ![task_id].assigned_agent_id = assigned_agent_id,
                    ![task_id].started_at = started_at,
                    ![task_id].completed_at = completed_at,
                    ![task_id].error_message = error_message]

\* DatabaseManager.update_task_parameters: replaces the whole JSONB value
update_task_parameters(ts, task_id, parameters) ==
    IF task_id \notin 1..Len(ts) THEN ts
    ELSE [ts EXCEPT ![task_id].parameters = parameters]

\* ids of S ordered by sequence_order (ties by row id)
RECURSIVE OrderBySequence(_, _)
OrderBySequence(ts, S) ==
    IF S = {} THEN <<>>
    ELSE LET m == CHOOSE x \in S : \A y \in S :
                      \/ ts[x].sequence_order < ts[y].sequence_order
                      \/ /\ ts[x].sequence_order = ts[y].sequence_order
                         /\ x <= y
         IN  <<m>> \o OrderBySequence(ts, S \ {m})

\* a query WHERE category = $2 ORDER BY sequence_order, whatever the job
get_tasks_for_category_of_any_job(ts, job_id, category) ==
    OrderBySequence(ts, {i \in 1..Len(ts) : ts[i].category = category})

\* DatabaseManager.get_tasks_for_category:
\* WHERE job_id = $1 AND category = $2 ORDER BY sequence_order
get_tasks_for_category(ts, job_id, category) ==
    OrderBySequence(ts, {i \in 1..Len(ts) : /\ ts[i].job_id = job_id
                                            /\ ts[i].category = category})


\* ------------------------------------------------------------ task runner
\* TaskRunner._execute_task_placeholder: sleeps, then always reports success
_execute_task_placeholder(task) ==
    [status |-> "completed", outputs |-> "placeholder", error_message |-> NULL]

\* parameters rebuilt around the outputs, the request text not carried over
updated_params_rebuilt(task, result) ==
    [task.parameters EXCEPT !.outputs = result.outputs, !.inputs.user_request = {}]

\* _process_task: updated_params = task.parameters.copy();
\* updated_params['outputs'] = result.outputs
updated_params(task, result) ==
    [task.parameters EXCEPT !.outputs = result.outputs]

\* sorted(tasks, key=lambda t: t.sequence_order): stable sort of the fetched rows
sorted_by_sequence_order(rows) ==
    LET before(i) == {j \in 1..Len(rows) :
                         \/ rows[j].sequence_order < rows[i].sequence_order
                         \/ /\ rows[j].sequence_order = rows[i].sequence_order
                            /\ j < i}
    IN  <<>> \o [k \in 1..Len(rows) |->
                    rows[CHOOSE i \in 1..Len(rows) : Cardinality(before(i)) = k - 1]]

\* the Task objects _process_category iterates over: the rows as fetched
fetched_rows(ts, job_id, category) ==
    LET ids == get_tasks_for_category(ts, job_id, category)
    IN  sorted_by_sequence_order(
            [k \in 1..Len(ids) |->
                [id |-> ids[k],
                 sequence_order |-> ts[ids[k]].sequence_order,
                 parameters |-> ts[ids[k]].parameters]])

\* a category without tasks reported as not processed
no_tasks_is_failure == FALSE

\* _process_category, `if not tasks: return True`
no_tasks_result == TRUE

\* an except branch that logs the error and reports the category as done
category_error_swallowed == TRUE

\* _process_category, `except Exception: return False`
category_error_result == FALSE

\* ContentEngine.process_job: final_status
final_status(success) == IF success THEN "completed" ELSE "failed"

\* ContentEngine.process_job: completed_at passed with the final status
final_completed_at(success) == IF success THEN "ts" ELSE NULL

IdleProc ==
    [pc |-> "idle", job |-> 0, cat |-> 0, list |-> <<>>, idx |-> 0,
     success |-> FALSE, started |-> <<>>, ret |-> "none"]

\* no create_job call has returned since the last call began
NoCreate == [template_name |-> NULL, known |-> FALSE, any_loaded |-> FALSE,
             result |-> "none", job |-> 0, template |-> NULL,
             user_request |-> {}, blueprints |-> <<>>]

\* TaskRunner.process_job returned `success`: on to the final job status write
RunnerReturns(pr, success) ==
    [pr EXCEPT !.pc = "job_final", !.success = success,
               !.list = <<>>, !.idx = 0, !.cat = 0]

\* for category in categories: the loop goes on after a category succeeded
AfterCategory(pr) ==
    IF pr.cat < Len(Categories)
    THEN [pr EXCEPT !.pc = "category", !.cat = pr.cat + 1,
                    !.list = <<>>, !.idx = 0]
    ELSE RunnerReturns(pr, TRUE)

\* a loop that takes the task it has just finished once more
AfterTaskAgain(pr) == [pr EXCEPT !.pc = "task_start"]

\* for task in sorted(...): the loop goes on after a task succeeded
AfterTask(pr) ==
    IF pr.idx < Len(pr.list)
    THEN [pr EXCEPT !.pc = "task_start", !.idx = pr.idx + 1]
    ELSE AfterCategory(pr)

\* ContentEngine.process_job returned or raised to its caller
EngineReturns(pr, result) ==
    [pr EXCEPT !.pc = "idle", !.ret = result, !.success = FALSE]

\* outcomes a db_manager call can have in this step
DbOutcomes == IF dbFailures < MaxDbFailures THEN {TRUE, FALSE} ELSE {TRUE}

DbStep(ok) == dbFailures' = IF ok THEN dbFailures ELSE dbFailures + 1

CurrentTask(pr) == pr.list[pr.idx]

\* --------------------------------------------------- process_job, by step
\* a caller enters ContentEngine.process_job(job_id) for an existing job
BeginProcessJob(p, j) ==
    /\ proc[p].pc = "idle"
    /\ calls < MaxCalls
    /\ j \in 1..Len(jobs)
    /\ calls' = calls + 1
    /\ proc' = [proc EXCEPT ![p] =
                   [IdleProc EXCEPT !.pc = "job_start", !.job = j]]
    /\ created' = NoCreate
    /\ UNCHANGED <<jobs, tasks, dbFailures, unit>>

\* update_job_status(job_id, IN_PROGRESS)
MarkJobInProgress(p) ==
    /\ proc[p].pc = "job_start"
    /\ \E ok \in DbOutcomes :
          /\ DbStep(ok)
          /\ IF ok
             THEN /\ jobs' = update_job_status(jobs, proc[p].job, "in_progress", NULL)
                  /\ proc' = [proc EXCEPT ![p].pc = "category", ![p].cat = 1]
             ELSE /\ proc' = [proc EXCEPT ![p].pc = "job_except"]
                  /\ UNCHANGED jobs
    /\ UNCHANGED <<tasks, calls, created, unit>>

\* _process_category up to the first task: fetch, empty check, sort
FetchCategory(p) ==
    /\ proc[p].pc = "category"
    /\ \E ok \in DbOutcomes :
          /\ DbStep(ok)
          /\ IF ok
             THEN LET rows == fetched_rows(tasks, proc[p].job, Categories[proc[p].cat])
                  IN  proc' = [proc EXCEPT ![p] =
                         IF rows = <<>>
                         THEN IF no_tasks_result
                              THEN AfterCategory(proc[p])
                              ELSE RunnerReturns(proc[p], FALSE)
                         ELSE [proc[p] EXCEPT !.pc = "task_start",
                                              !.list = rows, !.idx = 1]]
             ELSE proc' = [proc EXCEPT ![p] =
                         IF category_error_result
                         THEN AfterCategory(proc[p])
                         ELSE RunnerReturns(proc[p], FALSE)]
    /\ UNCHANGED <<jobs, tasks, calls, created, unit>>

\* _process_task: update_task_status(task.id, IN_PROGRESS, started_at=now)
MarkTaskInProgress(p) ==
    /\ proc[p].pc = "task_start"
    /\ \E ok \in DbOutcomes :
          /\ DbStep(ok)
          /\ IF ok
             THEN /\ tasks' = update_task_status(tasks, CurrentTask(proc[p]).id,
                                  "in_progress", NULL, "ts", NULL, NULL)
                  /\ proc' = [proc EXCEPT ![p].pc = "task_result",
                                 ![p].started = Append(@, CurrentTask(proc[p]).id)]
             ELSE /\ proc' = [proc EXCEPT ![p].pc = "task_except"]
                  /\ UNCHANGED tasks
    /\ UNCHANGED <<jobs, calls, created, unit>>

\* _process_task: execute, then write the result status
MarkTaskResult(p) ==
    /\ proc[p].pc = "task_result"
    /\ LET id == CurrentTask(proc[p]).id
           result == _execute_task_placeholder(tasks[id])
       IN  \E ok \in DbOutcomes :
              /\ DbStep(ok)
              /\ IF ~ok
                 THEN /\ proc' = [proc EXCEPT ![p].pc = "task_except"]
                      /\ UNCHANGED tasks
                 ELSE IF result.status = "completed"
                 THEN /\ tasks' = update_task_status(tasks, id, "completed",
                                      NULL, NULL, "ts", NULL)
                      /\ proc' = [proc EXCEPT ![p].pc = "task_params"]
                 ELSE /\ tasks' = update_task_status(tasks, id, "failed",
                                      NULL, NULL, "ts", result.error_message)
                      /\ proc' = [proc EXCEPT ![p] = RunnerReturns(proc[p], FALSE)]
    /\ UNCHANGED <<jobs, calls, created, unit>>

\* _process_task: update_task_parameters(task.id, parameters with outputs)
WriteTaskOutputs(p) ==
    /\ proc[p].pc = "task_params"
    /\ LET t == CurrentTask(proc[p])
           result == _execute_task_placeholder(tasks[t.id])
       IN  \E ok \in DbOutcomes :
              /\ DbStep(ok)
              /\ IF ok
                 THEN /\ tasks' = update_task_parameters(tasks, t.id, updated_params(t, result))
                      /\ proc' = [proc EXCEPT ![p] = AfterTask(proc[p])]
                 ELSE /\ proc' = [proc EXCEPT ![p].pc = "task_except"]
                      /\ UNCHANGED tasks
    /\ UNCHANGED <<jobs, calls, created, unit>>

\* _process_task, except branch: update_task_status(task.id, FAILED, ...);
\* if that write raises too, _process_category's except returns False
HandleTaskException(p) ==
    /\ proc[p].pc = "task_except"
    /\ \E ok \in DbOutcomes :
          /\ DbStep(ok)
          /\ IF ok
             THEN /\ tasks' = update_task_status(tasks, CurrentTask(proc[p]).id,
                                  "failed", NULL, NULL, "ts", "error")
                  /\ proc' = [proc EXCEPT ![p] = RunnerReturns(proc[p], FALSE)]
             ELSE /\ proc' = [proc EXCEPT ![p] =
                         IF category_error_result
                         THEN AfterCategory(proc[p])
                         ELSE RunnerReturns(proc[p], FALSE)]
                  /\ UNCHANGED tasks
    /\ UNCHANGED <<jobs, calls, created, unit>>

\* ContentEngine.process_job: update_job_status(job_id, final_status, completed_at)
WriteFinalJobStatus(p) ==
    /\ proc[p].pc = "job_final"
    /\ \E ok \in DbOutcomes :
          /\ DbStep(ok)
          /\ IF ok
             THEN /\ jobs' = update_job_status(jobs, proc[p].job,
                                 final_status(proc[p].success),
                                 final_completed_at(proc[p].success))
                  /\ proc' = [proc EXCEPT ![p] =
                                 EngineReturns(proc[p],
                                     IF proc[p].success THEN "true" ELSE "false")]
             ELSE /\ proc' = [proc EXCEPT ![p].pc = "job_except"]
                  /\ UNCHANGED jobs
    /\ UNCHANGED <<tasks, calls, created, unit>>

\* ContentEngine.process_job, except branch: update_job_status(job_id, FAILED)
HandleJobException(p) ==
    /\ proc[p].pc = "job_except"
    /\ \E ok \in DbOutcomes :
          /\ DbStep(ok)
          /\ IF ok
             THEN /\ jobs' = update_job_status(jobs, proc[p].job, "failed", NULL)
                  /\ proc' = [proc EXCEPT ![p] = EngineReturns(proc[p], "false")]
             ELSE /\ proc' = [proc EXCEPT ![p] = EngineReturns(proc[p], "raised")]
                  /\ UNCHANGED jobs
    /\ UNCHANGED <<tasks, calls, created, unit>>


\* ---------------------------------------------------------- parse_template
\* A line of a template file: the number of blanks it starts with, what the
\* rest of it is, and the text that part carries.
\*   "title"          # <arg>
\*   "meta"           **<arg>: value**
\*   "tasks_heading"  ### <arg> Tasks
\*   "task"           1. **<arg>**
\*   "bullet"         - <arg>
\*   "agent"          - Agent: <arg>
\*   "params"         - Parameters: <arg>
\*   "blank"          nothing
Line(indent, kind, arg) == [indent |-> indent, kind |-> kind, arg |-> arg]

\* lines[i].strip(): the leading blanks are gone
strip(line) == [line EXCEPT !.indent = 0]

\* line.startswith('   - '), line.startswith('   - Agent:') and
\* line.startswith('   - Parameters:'): three blanks, then the bullet
starts_with_indented(line, kinds) == line.indent = 3 /\ line.kind \in kinds

\* the category words a heading text contains
heading_words(arg) ==
    CASE arg = "Script" -> {"script"}
      [] arg = "Image" -> {"image"}
      [] arg = "Audio" -> {"audio"}
      [] arg = "Video" -> {"video"}
      [] arg = "Video Script" -> {"video", "script"}
      [] OTHER -> {}

\* the category words looked for from the last to the first
_extract_category_from_heading_video_first(arg) ==
    IF "video" \in heading_words(arg) THEN "video"
    ELSE IF "audio" \in heading_words(arg) THEN "audio"
    ELSE IF "image" \in heading_words(arg) THEN "image"
    ELSE IF "script" \in heading_words(arg) THEN "script"
    ELSE "script"

\* TemplateLoader._extract_category_from_heading
_extract_category_from_heading(arg) ==
    IF "script" \in heading_words(arg) THEN "script"
    ELSE IF "image" \in heading_words(arg) THEN "image"
    ELSE IF "audio" \in heading_words(arg) THEN "audio"
    ELSE IF "video" \in heading_words(arg) THEN "video"
    ELSE "script"

\* how the text after `- Parameters:` reads: whether it starts with { and ends
\* with }, and the key and the value text of every comma-separated item that
\* holds a colon, both stripped of blanks and quotes
params_text(arg) ==
    CASE arg = "{quality: high, count: 3, hd: true, raw: False}" ->
             [braced |-> TRUE,
              items |-> <<<<"quality", "high">>, <<"count", "3">>,
                          <<"hd", "true">>, <<"raw", "False">>>>]
      [] arg = "quality: high" ->
             [braced |-> FALSE, items |-> <<<<"quality", "high">>>>]
      [] OTHER -> [braced |-> FALSE, items |-> <<>>]

\* value.lower() == 'true' -> True; value.lower() == 'false' -> False;
\* value.isdigit() -> int(value); any other value stays the string it is
coerce(value) ==
    IF value \in {"true", "True"} THEN <<"bool", "True">>
    ELSE IF value \in {"false", "False"} THEN <<"bool", "False">>
    ELSE IF value \in {"3"} THEN <<"int", "3">>
    ELSE <<"str", value>>

\* the try block of the Parameters bullet: the dict built from the items when
\* the text is brace-delimited (a later item replaces an earlier one of the
\* same key), the task's parameters as they were otherwise
parse_parameters(parameters, arg) ==
    LET text == params_text(arg)
        last(i) == \A j \in (i + 1)..Len(text.items) : text.items[j][1] # text.items[i][1]
    IN  IF text.braced
        THEN {<<text.items[i][1], coerce(text.items[i][2])>> : i \in {i \in 1..Len(text.items) : last(i)}}
        ELSE parameters

\* template_name.replace('-', ' ').title()
title_of_name(template_name) == <<"titled", template_name>>

\* TemplateTask(name, description="", category, sequence_order, parameters={})
TemplateTask(name, category, sequence_order) ==
    [name |-> name, description |-> "", category |-> category,
     sequence_order |-> sequence_order, parameters |-> {},
     preferred_agent |-> NULL]

\* parse_template before its loop
ParseStart(template_name) ==
    [title |-> title_of_name(template_name), category |-> "general",
     tasks |-> <<>>, current_section |-> NULL, current_category |-> NULL,
     has_task |-> FALSE, current_task |-> TemplateTask("", "script", 0),
     sequence_counters |-> [c \in CategorySet |-> 0]]

\* one counter for the whole template
next_in_template(st, category) == [c \in CategorySet |-> st.sequence_counters[c] + 1]

\* sequence_counters[current_category] += 1
next_in_category(st, category) ==
    [st.sequence_counters EXCEPT ![category] = @ + 1]

\* the body of parse_template's loop for one line
ParseLine(st, raw) ==
    LET line == strip(raw)
    IN  IF line.kind = "blank" THEN st
        ELSE IF line.kind = "title" /\ st.title = <<>>
        THEN [st EXCEPT !.title = <<"line", line.arg>>]
        ELSE IF line.kind = "meta"
        THEN (IF line.arg = "Category"
              THEN [st EXCEPT !.category = "from_line"] ELSE st)
        ELSE IF line.kind = "tasks_heading"
        THEN [st EXCEPT !.current_section = "tasks",
                        !.current_category = _extract_category_from_heading(line.arg)]
        ELSE IF st.current_section = "tasks" /\ st.current_category # NULL
        THEN (IF line.kind = "task"
              THEN LET counters == next_in_category(st, st.current_category)
                   IN  [st EXCEPT
                          !.tasks = IF st.has_task
                                    THEN Append(@, st.current_task) ELSE @,
                          !.sequence_counters = counters,
                          !.has_task = TRUE,
                          !.current_task =
                              TemplateTask(line.arg, st.current_category,
                                           counters[st.current_category])]
              ELSE IF /\ st.has_task
                      /\ starts_with_indented(line, {"bullet", "agent", "params"})
                      /\ st.current_task.description = ""
                      /\ ~starts_with_indented(line, {"agent"})
                      /\ ~starts_with_indented(line, {"params"})
              THEN [st EXCEPT !.current_task.description = line.arg]
              ELSE IF st.has_task /\ starts_with_indented(line, {"agent"})
              THEN [st EXCEPT !.current_task.preferred_agent = line.arg]
              ELSE IF st.has_task /\ starts_with_indented(line, {"params"})
              THEN [st EXCEPT !.current_task.parameters = parse_parameters(@, line.arg)]
              ELSE st)
        ELSE st

\* parse_template's loop over lines[i..]
RECURSIVE ParseLines(_, _, _)
ParseLines(st, lines, i) ==
    IF i > Len(lines) THEN st
    ELSE ParseLines(ParseLine(st, lines[i]), lines, i + 1)

\* a parse that returns the blueprints appended so far
parse_template_without_last(template_name, lines) ==
    LET st == ParseLines(ParseStart(template_name), lines, 1)
    IN  [name |-> template_name, title |-> st.title, category |-> st.category,
         tasks |-> st.tasks]

\* TemplateLoader.parse_template
parse_template(template_name, lines) ==
    LET st == ParseLines(ParseStart(template_name), lines, 1)
    IN  [name |-> template_name, title |-> st.title, category |-> st.category,
         tasks |-> IF st.has_task THEN Append(st.tasks, st.current_task)
                   ELSE st.tasks]

\* the heading text that names a category
HeadingOf(category) ==
    CASE category = "script" -> "Script" [] category = "image" -> "Image"
      [] category = "audio" -> "Audio" [] category = "video" -> "Video"

\* a template file with one task section per entry of cats, each holding one
\* numbered task with its description bullet
RECURSIVE TemplateFile(_, _)
TemplateFile(cats, k) ==
    IF k > Len(cats) THEN <<>>
    ELSE <<Line(0, "tasks_heading", HeadingOf(cats[k])),
           Line(0, "task", k),
           Line(3, "bullet", "description")>> \o TemplateFile(cats, k + 1)

\* the lines template files are made of
TemplateLines ==
    {Line(0, "title", "Title"), Line(0, "meta", "Category"),
     Line(0, "tasks_heading", "Script"), Line(0, "tasks_heading", "Video"),
     Line(0, "tasks_heading", "Plain"),
     Line(0, "tasks_heading", "Video Script"),
     Line(0, "task", "research"), Line(0, "task", "write"),
     Line(3, "bullet", "description"), Line(3, "agent", "freepik_mystic"),
     Line(3, "params", "{quality: high, count: 3, hd: true, raw: False}"),
     Line(3, "params", "quality: high"), Line(0, "title", "Second Title")}

\* the template files handed to parse_template
TemplateFiles == SeqsUpTo(TemplateLines, MaxLines)

\* parse_template is handed a file
ParseTemplate ==
    /\ unit.op = "parse_template"
    /\ ~unit.done
    /\ unit' = [unit EXCEPT !.done = TRUE,
                            !.result = parse_template("blog-post", unit.lines)]
    /\ UNCHANGED <<jobs, tasks, proc, dbFailures, calls, created>>

\* --------------------------------------------------------------- create_job
\* what the request text contains, as far as the keyword heuristic can tell
Requests ==
    {{"write", "blog", "article"}, {"youtube", "tutorial"}, {},
     {"guide"}, {"post"}, {"tutorial", "blog"}}

\* JobCreateRequest: a text with no template named, or a named template
JobCreateRequests ==
    [user_request : Requests,
     template_name : {NULL} \cup TemplateNames \cup {UnknownTemplate}]

\* template_loader.templates after load_all_templates, in directory order
LoadedTemplates ==
    {<<>>, <<"blog-post">>, <<"youtube-tutorial">>,
     <<"blog-post", "youtube-tutorial">>, <<"youtube-tutorial", "blog-post">>}

\* what the selection collaborator does: fails its connection test, raises,
\* or recommends a template name
LlmAnswers == {"unavailable", "raises"} \cup TemplateNames \cup {UnknownTemplate}

\* TemplateLoader.get_template: self.templates.get(name)
get_template(loaded, name) == IF name \in Range(loaded) THEN name ELSE NULL

\* TemplateLoader.list_templates: the names of the loaded templates
list_templates(loaded) == loaded

\* `any(word in request_lower for word in words)`
any_word_in(words, user_request) == \E w \in words : w \in user_request

\* the written-content keywords tried before the tutorial keywords
_select_template_fallback_blog_first(user_request, loaded) ==
    LET templates == list_templates(loaded)
    IN  IF templates = <<>> THEN "NoTemplates"
        ELSE IF any_word_in({"blog", "article", "post", "write"}, user_request)
        THEN (IF "blog-post" \in Range(templates)
              THEN "blog-post" ELSE templates[1])
        ELSE IF any_word_in({"tutorial", "video", "youtube", "teach", "guide", "how to"},
                            user_request)
        THEN (IF "youtube-tutorial" \in Range(templates)
              THEN "youtube-tutorial" ELSE templates[1])
        ELSE templates[1]

\* ContentEngine._select_template_fallback
_select_template_fallback(user_request, loaded) ==
    LET templates == list_templates(loaded)
    IN  IF templates = <<>> THEN "NoTemplates"
        ELSE IF any_word_in({"tutorial", "video", "youtube", "teach", "guide", "how to"},
                            user_request)
        THEN (IF "youtube-tutorial" \in Range(templates)
              THEN "youtube-tutorial" ELSE templates[1])
        ELSE IF any_word_in({"blog", "article", "post", "write"}, user_request)
        THEN (IF "blog-post" \in Range(templates)
              THEN "blog-post" ELSE templates[1])
        ELSE templates[1]

\* ContentEngine._intelligent_template_selection
_intelligent_template_selection(user_request, loaded, llm) ==
    IF llm \in {"unavailable", "raises"}
    THEN _select_template_fallback(user_request, loaded)
    ELSE IF get_template(loaded, llm) # NULL THEN llm
    ELSE _select_template_fallback(user_request, loaded)

\* the template create_job works with, or the error it raises
resolve_template(request, loaded, llm) ==
    IF request.template_name # NULL
    THEN (IF get_template(loaded, request.template_name) = NULL
          THEN "TemplateNotFound" ELSE request.template_name)
    ELSE _intelligent_template_selection(request.user_request, loaded, llm)

\* create_job reaches `async with LLMService()` of the template selection
\* only when the request names no template
selection_consulted(request) == request.template_name = NULL

\* create_job's template resolution is handed a request, with the templates
\* directory and the collaborator's behaviour as they are
ResolveTemplate ==
    /\ unit.op = "resolve_template"
    /\ ~unit.done
    /\ unit' = [unit EXCEPT
                  !.done = TRUE,
                  !.consulted = selection_consulted(unit.request),
                  !.result = resolve_template(unit.request, unit.loaded, unit.llm)]
    /\ UNCHANGED <<jobs, tasks, proc, dbFailures, calls, created>>

\* -------------------------------------------------------- _generate_job_names
\* the words request texts are made of
Words == {"Write", "blog", "2024", "the", "ai"}

\* w.lower()
lower(w) == IF w = "Write" THEN "write" ELSE w

\* len(w)
len(w) ==
    CASE w \in {"Write", "write"} -> 5
      [] w \in {"blog", "2024"} -> 4
      [] w = "the" -> 3
      [] w = "ai" -> 2

\* w.isalpha()
isalpha(w) == w # "2024"

\* the longest request text whose display name is the text itself
DisplayLimit == 60

\* request texts: their words, and how many characters they have
NamedRequests ==
    [words : SeqsUpTo(Words, MaxWords), length : {DisplayLimit, DisplayLimit + 1}]

\* datetime.now().strftime('%Y%m%d-%H%M%S')
Timestamps == {"20240101-120000", "20240101-120001"}

\* what the naming collaborator does: LLMService() or its __aenter__ raises,
\* test_connection() is false, generate_job_name raises, or it returns names
NamingAnswers == {"unconstructible", "unavailable", "raises", "names"}

\* words of three characters count as key words too
key_words_from_three_characters(user_request) ==
    LET words == [i \in 1..Len(user_request.words) |-> lower(user_request.words[i])]
        qualifies(w) == len(w) > 2 /\ isalpha(w)
    IN  SelectSeq(SubSeq(words, 1, IF Len(words) < 3 THEN Len(words) ELSE 3), qualifies)

\* [w for w in user_request.lower().split()[:3] if len(w) > 3 and w.isalpha()]
key_words(user_request) ==
    LET words == [i \in 1..Len(user_request.words) |-> lower(user_request.words[i])]
        qualifies(w) == len(w) > 3 /\ isalpha(w)
    IN  SelectSeq(SubSeq(words, 1, IF Len(words) < 3 THEN Len(words) ELSE 3), qualifies)

\* ContentEngine._generate_job_names_fallback: the technical name as the
\* parts that '-' joins, the display name as the text shown and whether
\* "..." follows it
_generate_job_names_fallback(user_request, timestamp) ==
    [raised |-> FALSE,
     technical_name |-> IF key_words(user_request) # <<>>
                        THEN <<"job">> \o key_words(user_request) \o <<timestamp>>
                        ELSE <<"job", "content", timestamp>>,
     display_name |-> IF user_request.length > DisplayLimit
                      THEN [text |-> <<"first 60 characters of", user_request.words>>,
                            dots |-> TRUE]
                      ELSE [text |-> <<"all of", user_request.words>>,
                            dots |-> FALSE]]

\* ContentEngine._generate_job_names
_generate_job_names(user_request, llm, timestamp) ==
    IF llm = "names"
    THEN [raised |-> FALSE, technical_name |-> <<"job_naming.slug">>,
          display_name |-> [text |-> <<"job_naming.display_name", <<>>>>,
                            dots |-> FALSE]]
    ELSE _generate_job_names_fallback(user_request, timestamp)

\* create_job names the job it is about to insert
GenerateJobNames ==
    /\ unit.op = "_generate_job_names"
    /\ ~unit.done
    /\ \E timestamp \in Timestamps :
          unit' = [unit EXCEPT
                     !.done = TRUE,
                     !.timestamp = timestamp,
                     !.result = _generate_job_names(unit.request, unit.llm, timestamp)]
    /\ UNCHANGED <<jobs, tasks, proc, dbFailures, calls, created>>

\* the preferred_agent attribute of a TemplateTask
blueprint_preferred_agent(template_task) == template_task.preferred_agent

\* the blueprints parse_template makes of a template file with one task
\* section per entry of cats
TemplateTasks(cats) == parse_template("template", TemplateFile(cats, 1)).tasks

\* a Task whose inputs do not name the template
NewTaskWithoutTemplateName(job_id, template_name, user_request, template_task) ==
    [job_id |-> job_id,
     task_name |-> template_task.name,
     category |-> template_task.category,
     sequence_order |-> template_task.sequence_order,
     status |-> "pending",
     assigned_agent_id |-> NULL,
     preferred_agent |-> blueprint_preferred_agent(template_task),
     parameters |-> [inputs |-> [user_request |-> user_request,
                                 template_name |-> NULL,
                                 job_id |-> job_id],
                     requirements |-> template_task.parameters,
                     outputs |-> "{}"],
     started_at |-> NULL,
     completed_at |-> NULL,
     error_message |-> NULL]

\* the Task built by _create_tasks_from_template for one blueprint
NewTask(job_id, template_name, user_request, template_task) ==
    [job_id |-> job_id,
     task_name |-> template_task.name,
     category |-> template_task.category,
     sequence_order |-> template_task.sequence_order,
     status |-> "pending",
     assigned_agent_id |-> NULL,
     preferred_agent |-> blueprint_preferred_agent(template_task),
     parameters |-> [inputs |-> [user_request |-> user_request,
                                 template_name |-> template_name,
                                 job_id |-> job_id],
                     requirements |-> template_task.parameters,
                     outputs |-> "{}"],
     started_at |-> NULL,
     completed_at |-> NULL,
     error_message |-> NULL]

\* the Job built by create_job
NewJob(template_name) ==
    [status |-> "pending", completed_at |-> NULL]

\* ContentEngine._create_tasks_from_template, the first n blueprints persisted
_create_tasks_from_template(ts, job_id, template_name, user_request, template_tasks, n) ==
    ts \o [k \in 1..n |-> NewTask(job_id, template_name, user_request, template_tasks[k])]

\* create_job persisting the job row before it has resolved the template
create_job_insert_first(js, ts, request, loaded, llm, template_tasks, failAt) ==
    LET template == resolve_template(request, loaded, llm)
    IN  IF template \in {"TemplateNotFound", "NoTemplates"}
        THEN [jobs |-> Append(js, NewJob(NULL)), tasks |-> ts,
              result |-> template, job |-> 0, template |-> NULL]
        ELSE [jobs |-> Append(js, NewJob(template)),
              tasks |-> _create_tasks_from_template(ts, Len(js) + 1, template,
                                                    request.user_request,
                                                    template_tasks, Len(template_tasks)),
              result |-> "returned", job |-> Len(js) + 1, template |-> template]

\* ContentEngine.create_job. failAt says which persistence call raises:
\* 0 the job insert, k the insert of the k-th task, -1 none.
create_job(js, ts, request, loaded, llm, template_tasks, failAt) ==
    LET template == resolve_template(request, loaded, llm)
        job_id == Len(js) + 1
    IN  IF template \in {"TemplateNotFound", "NoTemplates"}
        THEN [jobs |-> js, tasks |-> ts, result |-> template, job |-> 0,
              template |-> NULL]
        ELSE IF failAt = 0
        THEN [jobs |-> js, tasks |-> ts, result |-> "DbError", job |-> 0,
              template |-> template]
        ELSE IF failAt \in 1..Len(template_tasks)
        THEN [jobs |-> Append(js, NewJob(template)),
              tasks |-> _create_tasks_from_template(ts, job_id, template,
                                                    request.user_request,
                                                    template_tasks, failAt - 1),
              result |-> "DbError", job |-> job_id, template |-> template]
        ELSE [jobs |-> Append(js, NewJob(template)),
              tasks |-> _create_tasks_from_template(ts, job_id, template,
                                                    request.user_request,
                                                    template_tasks, Len(template_tasks)),
              result |-> "returned", job |-> job_id, template |-> template]

\* the host calls ContentEngine.create_job(request), the request, the
\* templates directory, the collaborator's answer and the categories of the
\* chosen template's task sections being drawn from the given sets. The answer is drawn only when the collaborator is consulted,
\* the blueprints of the chosen template and the failing persistence call
\* only once a template is resolved
CreateJobFrom(requests, directories, answers, categories) ==
    /\ \A p \in Procs : proc[p].pc = "idle"
    /\ calls < MaxCalls
    /\ \E request \in requests, loaded \in directories :
       \E llm \in (IF request.template_name = NULL
                   THEN answers ELSE {"unavailable"}) :
          LET resolved == resolve_template(request, loaded, llm) \notin
                              {"TemplateNotFound", "NoTemplates"}
          IN  \E cats \in (IF ~resolved THEN {<<>>}
                           ELSE IF Len(jobs) < MaxJobs
                                THEN SeqsUpTo(categories, MaxBlueprints)
                                ELSE {}) :
              \E failAt \in (IF resolved /\ dbFailures < MaxDbFailures
                             THEN 0..Len(cats) ELSE {}) \cup {-1} :
                 LET r == create_job(jobs, tasks, request, loaded, llm,
                                     TemplateTasks(cats), failAt)
                 IN  /\ jobs' = r.jobs
                     /\ tasks' = r.tasks
                     /\ dbFailures' = IF r.result = "DbError"
                                      THEN dbFailures + 1 ELSE dbFailures
                     /\ created' = [template_name |-> request.template_name,
                                    known |-> request.template_name \in Range(loaded),
                                    any_loaded |-> loaded # <<>>,
                                    result |-> r.result, job |-> r.job,
                                    template |-> r.template,
                                    user_request |-> request.user_request,
                                    blueprints |-> TemplateTasks(cats)]
    /\ calls' = calls + 1
    /\ UNCHANGED <<proc, unit>>

\* the requests made where the jobs are then processed: one text without a
\* template name, and one naming a template that does not exist
RunRequests ==
    {[user_request |-> {"youtube", "tutorial"}, template_name |-> NULL],
     [user_request |-> {}, template_name |-> UnknownTemplate]}

\* the templates directory where the jobs are then processed
RunDirectories == {<<>>, <<"youtube-tutorial">>}

\* create_job ahead of process_job
CreateJob == CreateJobFrom(RunRequests, RunDirectories, {"unavailable"}, CategorySet)

\* the requests made where job creation is looked at alone
CreateRequests ==
    {[user_request |-> {"write", "blog", "article"}, template_name |-> NULL],
     [user_request |-> {"youtube", "tutorial"}, template_name |-> NULL],
     [user_request |-> {}, template_name |-> "blog-post"],
     [user_request |-> {}, template_name |-> UnknownTemplate]}

\* the templates directories there
CreateDirectories == {<<>>, <<"blog-post">>, <<"blog-post", "youtube-tutorial">>}

\* the collaborator's answers there
CreateAnswers == {"unavailable", "youtube-tutorial"}

\* the categories of the task sections there
CreateCategories == {"script", "video"}

\* create_job with either template, named or selected
CreateAnyJob ==
    CreateJobFrom(CreateRequests, CreateDirectories, CreateAnswers, CreateCategories)

\* ------------------------------------------------------------ agent catalog
\* no function is being looked at on its own
NoUnit == [op |-> "none"]

\* what validate_task(task) of a registered instance does with the task at hand
ValidationOutcomes == {"yes", "no", "raises"}

\* instances that get registered: the name they are registered under, the
\* category of their class, whether the class is an LLMAgent, whether it is
\* FreepikMysticAgent
AgentClasses ==
    {[key |-> "default_design", category |-> "image", llm |-> TRUE, freepik |-> FALSE],
     [key |-> "freepik_mystic", category |-> "image", llm |-> TRUE, freepik |-> TRUE],
     [key |-> "fallback_image", category |-> "image", llm |-> FALSE, freepik |-> FALSE],
     [key |-> "default_writing", category |-> "script", llm |-> TRUE, freepik |-> FALSE]}

\* an instance together with what depends on its configuration and on the
\* task: its api_key (FreepikMysticAgent only), the tenths its specializations
\* earn on the task's name, and the outcome of its validate_task
AgentInstances ==
    {[key |-> c.key, category |-> c.category, llm |-> c.llm, freepik |-> c.freepik,
      api_key |-> k, bonus |-> b, validates |-> v] :
        c \in AgentClasses, k \in BOOLEAN, b \in {0, 1, 2}, v \in ValidationOutcomes}

\* the api_key and the bonus are varied for one kind of instance each
BoundedInstances ==
    {a \in AgentInstances :
        /\ a.api_key => a.freepik
        /\ a.bonus = 1 => (~a.llm \/ a.key = "default_design")
        /\ a.bonus = 2 => a.key = "default_design"
        /\ (a.freepik \/ a.category = "script") => a.bonus = 0}

\* AgentRegistry after some register_agent_instance calls, in call order,
\* every name registered once
Registries ==
    {r \in SeqsUpTo(BoundedInstances, MaxAgents) :
        \A i, k \in 1..Len(r) : i # k => r[i].key # r[k].key}

\* the tasks handed to the selector
SelectorTasks ==
    [category : {"image", "script"},
     preferred_agent : {NULL, "freepik_mystic", "default_writing", "not_registered"}]

\* AgentRegistry.register_agent_instance: self._agents[instance_name] = agent
\* and self._category_agents[agent.category].append(agent). The registry is
\* kept as the instances in the order they were registered, each with the
\* name it was registered under
register_agent_instance(reg, instance_name, agent) ==
    Append(reg, [agent EXCEPT !.key = instance_name])

\* the instance first registered under the name is the one kept
get_agent_first_registered(reg, instance_name) ==
    IF \E i \in 1..Len(reg) : reg[i].key = instance_name
    THEN CHOOSE i \in 1..Len(reg) :
             /\ reg[i].key = instance_name
             /\ \A k \in 1..Len(reg) : reg[k].key = instance_name => i <= k
    ELSE 0

\* AgentRegistry.get_agent: self._agents.get(instance_name), as the position
\* of the instance in the registry, 0 for None
get_agent(reg, instance_name) ==
    IF \E i \in 1..Len(reg) : reg[i].key = instance_name
    THEN CHOOSE i \in 1..Len(reg) :
             /\ reg[i].key = instance_name
             /\ \A k \in 1..Len(reg) : reg[k].key = instance_name => k <= i
    ELSE 0

\* AgentRegistry.get_agents_by_category: the category's list, in insertion order
get_agents_by_category(reg, category) ==
    SelectSeq(reg, LAMBDA a : a.category = category)

\* a caller registers an instance under a name, taken or not
RegisterAgentInstance ==
    /\ unit.op = "register_agent_instance"
    /\ Len(unit.reg) < MaxAgents
    /\ \E agent \in BoundedInstances :
          unit' = [unit EXCEPT
                     !.reg = register_agent_instance(@, agent.key, agent),
                     !.instance_name = agent.key,
                     !.agent = agent]
    /\ UNCHANGED <<jobs, tasks, proc, dbFailures, calls, created>>

\* min(a, b)
Min(a, b) == IF a <= b THEN a ELSE b

\* a score that is not capped at 1.0
_calculate_agent_score_uncapped(agent, task) ==
    (IF agent.category = task.category THEN 5 ELSE 0)
        + (IF agent.llm THEN 3 ELSE 0)
        + (IF agent.api_key THEN 2 ELSE 0)
        + (IF task.category = "image" /\ agent.freepik /\ agent.api_key THEN 3 ELSE 0)
        + agent.bonus

\* AgentRegistry._calculate_agent_score, in tenths
_calculate_agent_score(agent, task) ==
    Min((IF agent.category = task.category THEN 5 ELSE 0)
        + (IF agent.llm THEN 3 ELSE 0)
        + (IF agent.api_key THEN 2 ELSE 0)
        + (IF task.category = "image" /\ agent.freepik /\ agent.api_key THEN 3 ELSE 0)
        + agent.bonus,
        10)

\* AgentRegistry._get_fallback_agent: fallback_names
fallback_names(category) ==
    CASE category = "script" -> "fallback_script"
      [] category = "image" -> "fallback_image"
      [] category = "audio" -> "fallback_audio"
      [] category = "video" -> "fallback_video"
      [] OTHER -> NULL

\* AgentRegistry._get_fallback_agent: the name found or None
_get_fallback_agent(reg, category) ==
    LET fallback_name == fallback_names(category)
        category_agents == get_agents_by_category(reg, category)
    IN  IF fallback_name # NULL
        THEN (IF get_agent(reg, fallback_name) = 0
              THEN NULL ELSE reg[get_agent(reg, fallback_name)].key)
        ELSE IF category_agents # <<>> THEN category_agents[1].key ELSE NULL

\* find_best_agent, try/except around preferred_agent.validate_task: an
\* exception is logged and selection falls through
preferred_validation(agent) ==
    IF agent.validates = "raises" THEN "no" ELSE agent.validates

\* a validate_task call whose exception is not caught
uncaught_validation(agent) == agent.validates

\* find_best_agent, try/except inside the loop over the category's agents:
\* an exception is logged and the loop continues
category_validation(agent) ==
    IF agent.validates = "raises" THEN "no" ELSE agent.validates

\* the first entry of the list of validated agents
first_scored(agent_scores, task) == agent_scores[1].key

\* agent_scores.sort(key=score, reverse=True); agent_scores[0][0]: the sort
\* is stable, so among equal scores the agent registered first comes first
best_scored(agent_scores, task) ==
    LET best == CHOOSE i \in 1..Len(agent_scores) : \A k \in 1..Len(agent_scores) :
                    \/ _calculate_agent_score(agent_scores[i], task)
                          > _calculate_agent_score(agent_scores[k], task)
                    \/ /\ _calculate_agent_score(agent_scores[i], task)
                            = _calculate_agent_score(agent_scores[k], task)
                       /\ i <= k
    IN  agent_scores[best].key

\* find_best_agent from "Fallback to automatic agent selection" on
automatic_selection(reg, task) ==
    LET category_agents == get_agents_by_category(reg, task.category)
        agent_scores == SelectSeq(category_agents,
                                  LAMBDA a : category_validation(a) = "yes")
    IN  IF category_agents = <<>> THEN NULL
        ELSE IF \E k \in 1..Len(category_agents) :
                    category_validation(category_agents[k]) = "raises"
        THEN "raised"
        ELSE IF agent_scores = <<>> THEN _get_fallback_agent(reg, task.category)
        ELSE best_scored(agent_scores, task)

\* a selector that goes by the scores alone
find_best_agent_by_score(reg, task) == automatic_selection(reg, task)

\* AgentRegistry.find_best_agent: the name of the instance returned, NULL
\* for None, "raised" for an exception reaching the caller
find_best_agent(reg, task) ==
    LET preferred_agent == IF task.preferred_agent # NULL
                           THEN get_agent(reg, task.preferred_agent) ELSE 0
        can_handle == IF preferred_agent = 0 THEN "no"
                      ELSE preferred_validation(reg[preferred_agent])
    IN  IF can_handle = "raises" THEN "raised"
        ELSE IF can_handle = "yes" THEN reg[preferred_agent].key
        ELSE automatic_selection(reg, task)

\* a selector that moves the instance it returns to the end of the registry
selected_moved_last(reg, task) ==
    LET selected == find_best_agent(reg, task)
    IN  IF get_agent(reg, selected) = 0 THEN reg
        ELSE SelectSeq(reg, LAMBDA a : a.key # selected)
                 \o <<reg[get_agent(reg, selected)]>>

\* the registry after find_best_agent: the method assigns to neither
\* self._agents nor self._category_agents, and the list it sorts is its own
\* agent_scores
registry_after_selection(reg, task) == reg

\* TaskRunner.__init__: self.agents_registry = {}, to which nothing is added
agents_registry == <<>>

\* the selector is handed a task
FindBestAgent ==
    /\ unit.op = "find_best_agent"
    /\ unit.result = "not_called"
    /\ unit' = [unit EXCEPT !.result = find_best_agent(unit.registry, unit.task),
                            !.registry = registry_after_selection(@, unit.task)]
    /\ UNCHANGED <<jobs, tasks, proc, dbFailures, calls, created>>

\* the selector is handed the same task once more
FindBestAgentAgain ==
    /\ unit.op = "find_best_agent"
    /\ unit.result # "not_called"
    /\ unit.again = "not_called"
    /\ unit' = [unit EXCEPT !.again = find_best_agent(unit.registry, unit.task),
                            !.registry = registry_after_selection(@, unit.task)]
    /\ UNCHANGED <<jobs, tasks, proc, dbFailures, calls, created>>

\* ------------------------------------------------------------ specification
Init ==
    /\ jobs = <<>>
    /\ tasks = <<>>
    /\ proc = [p \in Procs |-> IdleProc]
    /\ dbFailures = 0
    /\ calls = 0
    /\ created = NoCreate
    /\ unit = NoUnit

\* the engine as its single-threaded host drives it: one call at a time
ProcessJobStep(p) ==
    \/ MarkJobInProgress(p)
    \/ FetchCategory(p)
    \/ MarkTaskInProgress(p)
    \/ MarkTaskResult(p)
    \/ WriteTaskOutputs(p)
    \/ HandleTaskException(p)
    \/ WriteFinalJobStatus(p)
    \/ HandleJobException(p)

Next ==
    \/ CreateJob
    \/ \E j \in 1..MaxJobs : BeginProcessJob(MainProc, j)
    \/ ProcessJobStep(MainProc)

Spec == Init /\ [][Next]_vars

\* job creation alone
NextCreate == CreateAnyJob

SpecCreate == Init /\ [][NextCreate]_vars

\* the selector alone, over every registry and task
InitSelect ==
    /\ jobs = <<>>
    /\ tasks = <<>>
    /\ proc = [p \in Procs |-> IdleProc]
    /\ dbFailures = 0
    /\ calls = 0
    /\ created = NoCreate
    /\ unit \in [op : {"find_best_agent"}, registry : Registries,
                  task : SelectorTasks, result : {"not_called"},
                  again : {"not_called"}]

NextSelect == FindBestAgent \/ FindBestAgentAgain

SpecSelect == InitSelect /\ [][NextSelect]_vars

\* the template parser alone, over every file
InitParse ==
    /\ jobs = <<>>
    /\ tasks = <<>>
    /\ proc = [p \in Procs |-> IdleProc]
    /\ dbFailures = 0
    /\ calls = 0
    /\ created = NoCreate
    /\ unit \in [op : {"parse_template"}, lines : TemplateFiles,
                  done : {FALSE}, result : {parse_template("blog-post", <<>>)}]

NextParse == ParseTemplate

SpecParse == InitParse /\ [][NextParse]_vars

\* template resolution alone, over every request, directory and collaborator
InitResolve ==
    /\ jobs = <<>>
    /\ tasks = <<>>
    /\ proc = [p \in Procs |-> IdleProc]
    /\ dbFailures = 0
    /\ calls = 0
    /\ created = NoCreate
    /\ unit \in [op : {"resolve_template"}, request : JobCreateRequests,
                  loaded : LoadedTemplates, llm : LlmAnswers,
                  done : {FALSE}, consulted : {FALSE}, result : {NULL}]

NextResolve == ResolveTemplate

SpecResolve == InitResolve /\ [][NextResolve]_vars

\* job naming alone, over every request text and collaborator
InitNaming ==
    /\ jobs = <<>>
    /\ tasks = <<>>
    /\ proc = [p \in Procs |-> IdleProc]
    /\ dbFailures = 0
    /\ calls = 0
    /\ created = NoCreate
    /\ unit \in [op : {"_generate_job_names"}, request : NamedRequests,
                  llm : NamingAnswers, done : {FALSE}, timestamp : {"none"},
                  result : {_generate_job_names([words |-> <<>>, length |-> 0],
                                                "names", "none")}]

NextNaming == GenerateJobNames

SpecNaming == InitNaming /\ [][NextNaming]_vars

\* the registry alone, as instances are registered
InitRegister ==
    /\ jobs = <<>>
    /\ tasks = <<>>
    /\ proc = [p \in Procs |-> IdleProc]
    /\ dbFailures = 0
    /\ calls = 0
    /\ created = NoCreate
    /\ unit \in [op : {"register_agent_instance"}, reg : {<<>>},
                  instance_name : {NULL},
                  agent : {CHOOSE a \in BoundedInstances : TRUE}]

NextRegister == RegisterAgentInstance

SpecRegister == InitRegister /\ [][NextRegister]_vars

\* the job each of the two concurrent process_job callers works on
job_of(p) == IF p = MainProc THEN 1 ELSE 2

\* the categories of the task sections of the two jobs' templates
ConcurrentCategories == {"script", "video"}

\* two jobs have been created, the second from a template of at most one
\* task, and none is processed
InitConcurrent ==
    /\ \E cats1 \in SeqsUpTo(ConcurrentCategories, MaxBlueprints),
          cats2 \in SeqsUpTo(ConcurrentCategories, 1) :
          /\ jobs = <<NewJob("youtube-tutorial"), NewJob("blog-post")>>
          /\ tasks = _create_tasks_from_template(
                         _create_tasks_from_template(
                             <<>>, 1, "youtube-tutorial", {"youtube", "tutorial"},
                             TemplateTasks(cats1), Len(cats1)),
                         2, "blog-post", {"write", "blog", "article"},
                         TemplateTasks(cats2), Len(cats2))
    /\ proc = [p \in Procs |-> IdleProc]
    /\ dbFailures = 0
    /\ calls = 0
    /\ created = NoCreate
    /\ unit = NoUnit

\* the host awaits process_job for both jobs at once: the steps of the two
\* calls interleave at every await of a persistence call
NextConcurrent ==
    \E p \in Procs :
        \/ BeginProcessJob(p, job_of(p))
        \/ ProcessJobStep(p)

SpecConcurrent == InitConcurrent /\ [][NextConcurrent]_vars

\* one job has been created from its template, and it is not processed yet
InitSameJob ==
    /\ \E cats \in SeqsUpTo(ConcurrentCategories, MaxBlueprints) :
          /\ jobs = <<NewJob("youtube-tutorial")>>
          /\ tasks = _create_tasks_from_template(
                         <<>>, 1, "youtube-tutorial", {"youtube", "tutorial"},
                         TemplateTasks(cats), Len(cats))
    /\ proc = [p \in Procs |-> IdleProc]
    /\ dbFailures = 0
    /\ calls = 0
    /\ created = NoCreate
    /\ unit = NoUnit

\* process_job is entered for the same job by two callers (run_job goes on
\* with a job that is in progress once the user confirms), and the steps of
\* the two calls interleave at every await of a persistence call
NextSameJob ==
    \E p \in Procs :
        \/ BeginProcessJob(p, 1)
        \/ ProcessJobStep(p)

SpecSameJob == InitSameJob /\ [][NextSameJob]_vars

\* the host calls process_job for the job it has created, one call at a time
NextRun ==
    \/ BeginProcessJob(MainProc, 1)
    \/ ProcessJobStep(MainProc)

\* the host's event loop keeps running a process_job call that can take a
\* step: every await of it is resumed
SpecFair == InitSameJob /\ [][NextRun]_vars /\ WF_vars(ProcessJobStep(MainProc))


\* ------------------------------------------------------ vocabulary of claims
TaskIds == 1..Len(tasks)

JobIds == 1..Len(jobs)

TasksOf(j) == {t \in TaskIds : tasks[t].job_id = j}

\* category order script < image < audio < video
CategoryRank(c) ==
    CASE c = "script" -> 1 [] c = "image" -> 2 [] c = "audio" -> 3 [] c = "video" -> 4

\* row a comes before row b in category-then-sequence order
Precedes(a, b) ==
    \/ CategoryRank(a.category) < CategoryRank(b.category)
    \/ /\ a.category = b.category
       /\ a.sequence_order < b.sequence_order

Running(p) == proc[p].pc # "idle"

\* this step is the return (or raise) of a process_job call of p
ReturnsNow(p) == Running(p) /\ proc'[p].pc = "idle"

\* C1: a completed job has only completed tasks
C1_CompletedJobHasOnlyCompletedTasks ==
    \A j \in JobIds : jobs[j].status = "completed" =>
        \A t \in TasksOf(j) : tasks[t].status = "completed"

C1_Witness ==
    \E j \in JobIds :
        /\ jobs[j].status = "completed"
        /\ \E t, u \in TasksOf(j) : tasks[t].category # tasks[u].category
        /\ \A t \in TasksOf(j) : tasks[t].status = "completed"

\* C2: a failed job has a failed task, and no task after the first failed
\* task (category, then sequence order) is completed
C2_FailedJobHasFailedTask ==
    \A j \in JobIds : jobs[j].status = "failed" =>
        /\ \E t \in TasksOf(j) : tasks[t].status = "failed"
        /\ \A t, u \in TasksOf(j) :
               (tasks[t].status = "failed" /\ Precedes(tasks[t], tasks[u]))
                   => tasks[u].status # "completed"

\* a task this call started has been marked failed
FailedInCall(p) ==
    /\ Running(p)
    /\ \E t \in Range(proc[p].started) : tasks[t].status = "failed"

\* C3: once a task is marked failed during process_job, no later task is
\* started in that call, every later task stays pending with its row
\* untouched, and the job ends with status failed
C3_FailFast ==
    [][\A p \in Procs : FailedInCall(p) =>
          /\ proc'[p].started = proc[p].started
          /\ \A t \in Range(proc[p].started), u \in TasksOf(proc[p].job) :
                (tasks[t].status = "failed" /\ Precedes(tasks[t], tasks[u]))
                    => (tasks[u].status = "pending" /\ tasks'[u] = tasks[u])
          /\ ReturnsNow(p) => jobs'[proc[p].job].status = "failed"]_vars

AllowedTaskMoves ==
    {<<"pending", "in_progress">>, <<"in_progress", "completed">>,
     <<"in_progress", "failed">>}

\* C5: a task's status moves only pending -> in_progress -> completed/failed,
\* and a completed or failed task is never touched again
C5_TaskStatusMachine ==
    [][\A t \in TaskIds :
          tasks'[t].status # tasks[t].status =>
              <<tasks[t].status, tasks'[t].status>> \in AllowedTaskMoves]_vars

AllowedJobMoves ==
    {<<"pending", "in_progress">>, <<"in_progress", "completed">>,
     <<"in_progress", "failed">>}

\* C6: a job is pending after create_job, in_progress while process_job runs,
\* completed or failed when process_job returns, and then never changes
C6_JobStatusMachine ==
    [][/\ \A j \in JobIds :
             jobs'[j].status # jobs[j].status =>
                 <<jobs[j].status, jobs'[j].status>> \in AllowedJobMoves
       /\ \A j \in 1..Len(jobs') : j \notin JobIds => jobs'[j].status = "pending"
       /\ \A p \in Procs : ReturnsNow(p) =>
             jobs'[proc[p].job].status \in {"completed", "failed"}]_vars

\* C7: completed_at is set exactly for completed and failed jobs
C7_CompletedAtIffTerminal ==
    \A j \in JobIds :
        jobs[j].completed_at # NULL <=> jobs[j].status \in {"completed", "failed"}

\* C8: process_job returns true exactly when the job is completed at return,
\* false exactly when it is failed, and it returns true when the runner got
\* every category's tasks completed
C8_ReturnValueIsStatus ==
    [][\A p \in Procs : ReturnsNow(p) =>
          LET j == proc[p].job
          IN  /\ proc'[p].ret = "true" => jobs'[j].status = "completed"
              /\ proc'[p].ret = "false" => jobs'[j].status = "failed"
              /\ jobs'[j].status = "completed" => proc'[p].ret # "false"
              /\ jobs'[j].status = "failed" => proc'[p].ret # "true"
              /\ proc[p].success => proc'[p].ret = "true"]_vars

\* C9: during a process_job call at most one task of the job is in_progress,
\* a task being marked in_progress only after the one started before it was
\* marked completed
C9_OneTaskInProgress ==
    [][\A p \in Procs : Running(p) =>
          /\ Cardinality({t \in TasksOf(proc[p].job) :
                              tasks'[t].status = "in_progress"}) <= 1
          /\ proc'[p].started # proc[p].started =>
                \A t \in Range(proc[p].started) : tasks[t].status = "completed"]_vars

\* the last create_job call named a template that is not loaded, or named
\* none while no template is loaded
UnresolvableRequest(c) ==
    \/ c.template_name # NULL /\ ~c.known
    \/ c.template_name = NULL /\ ~c.any_loaded

\* C10: create_job for an unknown template name, or with no templates
\* loaded, raises and leaves the job and task rows as they were
C10_CreateJobRejectsUnknownTemplate ==
    [][(calls' # calls /\ created'.result # "none" /\ UnresolvableRequest(created'))
          => /\ created'.result \in {"TemplateNotFound", "NoTemplates"}
             /\ jobs' = jobs
             /\ tasks' = tasks]_vars

C10_Witness ==
    /\ created.template_name = UnknownTemplate
    /\ created.result = "TemplateNotFound"
    /\ Len(tasks) > 0

\* C11: a create_job call that returned has persisted one pending job and
\* exactly one pending task per blueprint of the chosen template, in blueprint
\* order, each with the blueprint's name, category, sequence order and
\* preferred agent, inputs = {user request, template name, job id},
\* requirements = the blueprint's parameters, and empty outputs
C11_CreateJobMaterializesBlueprints ==
    created.result = "returned" =>
        LET j == created.job
            b == created.blueprints
            ids == [k \in 1..Cardinality(TasksOf(j)) |->
                       CHOOSE t \in TasksOf(j) :
                           Cardinality({u \in TasksOf(j) : u < t}) = k - 1]
        IN  /\ j = Len(jobs)
            /\ jobs[j].status = "pending"
            /\ Cardinality(TasksOf(j)) = Len(b)
            /\ \A k \in 1..Len(b) :
                   LET t == tasks[ids[k]]
                   IN  /\ t.status = "pending"
                       /\ t.task_name = b[k].name
                       /\ t.category = b[k].category
                       /\ t.sequence_order = b[k].sequence_order
                       /\ t.preferred_agent = b[k].preferred_agent
                       /\ t.parameters.inputs =
                              [user_request |-> created.user_request,
                               template_name |-> created.template,
                               job_id |-> j]
                       /\ t.parameters.requirements = b[k].parameters
                       /\ t.parameters.outputs = "{}"

C11_Witness ==
    /\ created.result = "returned"
    /\ Len(created.blueprints) = 2
    /\ created.blueprints[1].category = created.blueprints[2].category
    /\ created.user_request # {}
    /\ Cardinality(TasksOf(created.job)) = 2

\* the selector has been called and has ended
Selected == unit.op = "find_best_agent" /\ unit.result # "not_called"

\* the task names a preferred agent that is registered and validates the task
PreferredUsable(reg, task) ==
    /\ task.preferred_agent # NULL
    /\ get_agent(reg, task.preferred_agent) # 0
    /\ reg[get_agent(reg, task.preferred_agent)].validates = "yes"

\* the providers of the task's category that validate the task
ValidCategoryAgents(reg, task) ==
    SelectSeq(get_agents_by_category(reg, task.category),
              LAMBDA a : a.validates = "yes")

C13_FallsBackToBestValid ==
    (/\ Selected
     /\ unit.task.preferred_agent # NULL
     /\ ~PreferredUsable(unit.registry, unit.task))
        => LET valid == ValidCategoryAgents(unit.registry, unit.task)
           IN  /\ unit.result # "raised"
               /\ valid # <<>> =>
                     \E i \in 1..Len(valid) :
                        /\ unit.result = valid[i].key
                        /\ \A k \in 1..Len(valid) :
                               _calculate_agent_score(valid[i], unit.task)
                                   >= _calculate_agent_score(valid[k], unit.task)

C13_Witness ==
    /\ Selected
    /\ unit.task.preferred_agent # NULL
    /\ get_agent(unit.registry, unit.task.preferred_agent) # 0
    /\ unit.registry[get_agent(unit.registry, unit.task.preferred_agent)].validates = "raises"
    /\ LET valid == ValidCategoryAgents(unit.registry, unit.task)
       IN  /\ Len(valid) = 2
           /\ unit.result = valid[2].key
           /\ _calculate_agent_score(valid[2], unit.task)
                  > _calculate_agent_score(valid[1], unit.task)

\* C14: when no provider of the task's category validates the task,
\* find_best_agent returns the category's fallback instance if it is
\* registered, otherwise the first provider of the category's list, and None
\* only when the category has no provider
C14_FallbackThenFirstProvider ==
    (/\ Selected
     /\ ~PreferredUsable(unit.registry, unit.task)
     /\ ValidCategoryAgents(unit.registry, unit.task) = <<>>)
        => LET category_agents ==
                   get_agents_by_category(unit.registry, unit.task.category)
               fallback == get_agent(unit.registry, fallback_names(unit.task.category))
           IN  unit.result = IF category_agents = <<>> THEN NULL
                             ELSE IF fallback # 0 THEN unit.registry[fallback].key
                             ELSE category_agents[1].key

\* the registry with every raising validate_task replaced by a rejecting one
Rejecting(reg) ==
    [i \in 1..Len(reg) |->
        [reg[i] EXCEPT !.validates = IF @ = "raises" THEN "no" ELSE @]]

\* C15: a validate_task that raises counts as one that rejects: the
\* exception never reaches the caller and the selection is the one made
\* when that provider rejects the task, the other providers being considered
C15_RaisingValidationIsRejection ==
    Selected =>
        /\ unit.result # "raised"
        /\ unit.result = find_best_agent(Rejecting(unit.registry), unit.task)

C15_Witness ==
    /\ Selected
    /\ LET category_agents ==
               get_agents_by_category(unit.registry, unit.task.category)
       IN  /\ Len(category_agents) = 3
           /\ category_agents[1].validates = "raises"
           /\ category_agents[2].validates = "no"
           /\ category_agents[3].validates = "yes"
           /\ unit.result = category_agents[3].key
    /\ unit.task.preferred_agent # NULL
    /\ get_agent(unit.registry, unit.task.preferred_agent) # 0
    /\ unit.registry[get_agent(unit.registry, unit.task.preferred_agent)].validates = "raises"

\* what the selector reads of a task row
SelectorTask(row) == [category |-> row.category, preferred_agent |-> row.preferred_agent]

\* the catalog the runner holds has no provider for the row
NoProviderFor(row) == find_best_agent(agents_registry, SelectorTask(row)) = NULL

\* C16: a task for which the selector finds no provider is marked failed
\* with a 'no compatible agent' error when the runner comes to execute it,
\* the call does not raise and the job ends failed
C16_NoProviderFailsTask ==
    [][\A p \in Procs :
          /\ (/\ proc[p].pc = "task_result"
              /\ proc'[p].pc \notin {"task_result", "task_except"}
              /\ NoProviderFor(tasks[CurrentTask(proc[p]).id]))
                => /\ tasks'[CurrentTask(proc[p]).id].status = "failed"
                   /\ tasks'[CurrentTask(proc[p]).id].error_message
                          = "no compatible agent"
          /\ (/\ ReturnsNow(p)
              /\ \E t \in Range(proc[p].started) : NoProviderFor(tasks[t]))
                => /\ proc'[p].ret = "false"
                   /\ jobs'[proc[p].job].status = "failed"]_vars

\* C18: a task has outputs exactly when it is completed
C18_OutputsIffCompleted ==
    \A t \in TaskIds :
        tasks[t].parameters.outputs # "{}" <=> tasks[t].status = "completed"

\* the categories of a sequence of blueprints or rows
CategoriesOf(rows) == [k \in 1..Len(rows) |-> rows[k].category]

\* every entry carries the number of entries of its category up to it
NumberedPerCategory(rows) ==
    \A k \in 1..Len(rows) :
        rows[k].sequence_order = CountUpTo(CategoriesOf(rows), k, rows[k].category)

\* the rows of job j in creation order
RowsOf(j) ==
    SelectSeq([t \in TaskIds |-> tasks[t]], LAMBDA row : row.job_id = j)

\* C19: in every category the blueprints parse_template makes are numbered
\* 1, 2, ..., n in document order, also across task sections; the rows
\* create_job makes of them carry these numbers, and process_job leaves them
C19_SequenceOrdersContiguous ==
    /\ created.result = "returned" =>
          /\ NumberedPerCategory(created.blueprints)
          /\ \A k \in 1..Len(created.blueprints) :
                 RowsOf(created.job)[k].sequence_order
                     = created.blueprints[k].sequence_order
    /\ \A j \in JobIds : NumberedPerCategory(RowsOf(j))

C19_Witness ==
    \E j \in JobIds :
        /\ Len(RowsOf(j)) = 2
        /\ RowsOf(j)[1].category = RowsOf(j)[2].category
        /\ RowsOf(j)[1].sequence_order = 1
        /\ RowsOf(j)[2].sequence_order = 2
        /\ RowsOf(j)[2].status = "completed"

\* parse_template has been handed a file and has returned
Parsed == unit.op = "parse_template" /\ unit.done

\* line i is a numbered task line below a task section heading
TaskLineInSection(lines, i) ==
    /\ lines[i].kind = "task"
    /\ \E h \in 1..(i - 1) : lines[h].kind = "tasks_heading"

\* C20: an indented bullet `- Agent: <key>` right after a numbered task line
\* of a task section sets that blueprint's preferred agent to <key>
C20_AgentBulletSetsPreferredAgent ==
    Parsed =>
        \A i \in 1..(Len(unit.lines) - 1) :
            (/\ TaskLineInSection(unit.lines, i)
             /\ unit.lines[i + 1].kind = "agent"
             /\ unit.lines[i + 1].indent = 3)
                => LET m == Cardinality({h \in 1..i : TaskLineInSection(unit.lines, h)})
                   IN  /\ Len(unit.result.tasks) >= m
                       /\ unit.result.tasks[m].preferred_agent = unit.lines[i + 1].arg

\* the blueprint that the numbered task line i of the file became
BlueprintOfLine(i) ==
    unit.result.tasks[Cardinality({h \in 1..i : TaskLineInSection(unit.lines, h)})]

\* the parameters a brace-delimited list stands for: `true`/`false` booleans,
\* all-digit integers, every other value a string
ListedParameters ==
    {<<"quality", <<"str", "high">>>>, <<"count", <<"int", "3">>>>,
     <<"hd", <<"bool", "True">>>>, <<"raw", <<"bool", "False">>>>}

\* C21: an indented bullet `- Parameters: {k: v, ...}` under a task line sets
\* the blueprint's parameters to the listed keys with coerced values; text that
\* is not a brace-delimited list leaves the parameters as they were, and the
\* parse returns either way
C21_ParametersBulletSetsParameters ==
    Parsed =>
        \A i \in 1..(Len(unit.lines) - 1) :
            (/\ TaskLineInSection(unit.lines, i)
             /\ unit.lines[i + 1].kind = "params"
             /\ unit.lines[i + 1].indent = 3)
                => /\ Len(unit.result.tasks) >=
                          Cardinality({h \in 1..i : TaskLineInSection(unit.lines, h)})
                   /\ BlueprintOfLine(i).parameters =
                          IF unit.lines[i + 1].arg = "quality: high"
                          THEN {} ELSE ListedParameters

\* the index of the first line of the form `# <title>`, 0 when there is none
FirstTitleLine(lines) ==
    IF \E i \in 1..Len(lines) : lines[i].kind = "title"
    THEN CHOOSE i \in 1..Len(lines) :
             /\ lines[i].kind = "title"
             /\ \A h \in 1..(i - 1) : lines[h].kind # "title"
    ELSE 0

\* C22: the template's title is the text of the first `# <title>` line of the
\* file, whatever `# ` lines follow it
C22_FirstHeadingSetsTitle ==
    (Parsed /\ FirstTitleLine(unit.lines) # 0)
        => unit.result.title = <<"line", unit.lines[FirstTitleLine(unit.lines)].arg>>

\* create_job's template resolution has been handed a request and has returned
Resolved == unit.op = "resolve_template" /\ unit.done

\* what the keyword heuristic picks given its two keyword lists: the tutorial
\* template for a tutorial keyword, else the written-content template for a
\* written-content keyword, else (or when that template is not loaded) the
\* first loaded template
HeuristicChoice(user_request, loaded, tutorial_words, written_words) ==
    LET wanted == IF user_request \cap tutorial_words # {} THEN "youtube-tutorial"
                  ELSE IF user_request \cap written_words # {} THEN "blog-post"
                  ELSE loaded[1]
    IN  IF wanted \in Range(loaded) THEN wanted ELSE loaded[1]

\* the resolution order: the named template when it is loaded, and then the
\* collaborator is not consulted; else the recommendation when it names a
\* loaded template; else the keyword heuristic over the loaded templates
ResolutionOrder(tutorial_words, written_words) ==
    (Resolved /\ unit.loaded # <<>>) =>
        IF unit.request.template_name # NULL
        THEN unit.request.template_name \in Range(unit.loaded)
                 => /\ unit.result = unit.request.template_name
                    /\ ~unit.consulted
        ELSE IF unit.llm \in Range(unit.loaded)
        THEN unit.result = unit.llm
        ELSE unit.result = HeuristicChoice(unit.request.user_request, unit.loaded,
                                           tutorial_words, written_words)

\* C23 as stated: the resolution order, the heuristic looking for
\* tutorial/video/youtube and then for blog/article/write
C23_ResolutionOrder ==
    ResolutionOrder({"tutorial", "video", "youtube"}, {"blog", "article", "write"})

\* C23: the resolution order, the heuristic looking for
\* tutorial/video/youtube/teach/guide/how to and then for
\* blog/article/post/write
C23_ResolutionOrderAllKeywords ==
    ResolutionOrder({"tutorial", "video", "youtube", "teach", "guide", "how to"},
                    {"blog", "article", "post", "write"})

\* a request with both kinds of keyword, no template named, the collaborator
\* recommending a template that is not loaded, has been resolved by the
\* heuristic with the written-content template loaded first
C23_Witness ==
    /\ Resolved
    /\ unit.request.template_name = NULL
    /\ unit.request.user_request = {"tutorial", "blog"}
    /\ unit.llm = UnknownTemplate
    /\ unit.loaded = <<"blog-post", "youtube-tutorial">>
    /\ unit.result = "youtube-tutorial"

\* _generate_job_names has been handed a request and has returned
Named == unit.op = "_generate_job_names" /\ unit.done

\* a word of the request that goes into the fallback technical name
AlphabeticOfFourOrMore(w) == isalpha(lower(w)) /\ len(lower(w)) >= 4

\* C24: with the naming collaborator not constructible, failing its probe or
\* raising, job naming returns the fallback names: 'job', then the alphabetic
\* words of at least 4 characters among the first three words of the request
\* ('content' when there are none), then a timestamp; and the request itself as
\* display name when it has at most 60 characters
C24_FallbackNaming ==
    (Named /\ unit.llm # "names") =>
        LET words == unit.request.words
            first3 == SubSeq(words, 1, IF Len(words) < 3 THEN Len(words) ELSE 3)
            kept == SelectSeq(first3, AlphabeticOfFourOrMore)
            named == IF kept = <<>> THEN <<"content">>
                     ELSE [i \in 1..Len(kept) |-> lower(kept[i])]
        IN  /\ ~unit.result.raised
            /\ unit.result.technical_name = <<"job">> \o named \o <<unit.timestamp>>
            /\ unit.request.length <= 60
                   => unit.result.display_name = [text |-> <<"all of", words>>,
                                                  dots |-> FALSE]

\* the collaborator raised and the fallback named a request of four words, of
\* which the first is capitalised, the second too short, the third not
\* alphabetic and the fourth beyond the first three
C24_Witness ==
    /\ Named
    /\ unit.llm = "raises"
    /\ unit.request.words = <<"Write", "the", "2024", "blog">>
    /\ unit.request.length = 60
    /\ unit.result.technical_name = <<"job", "write", unit.timestamp>>

\* this step is p's fetch of the tasks of its current category, the fetch
\* returns, and the job has no task in that category
FetchesEmptyCategory(p) ==
    /\ proc[p].pc = "category"
    /\ proc'[p] # proc[p]
    /\ dbFailures' = dbFailures
    /\ \A t \in TasksOf(proc[p].job) : tasks[t].category # Categories[proc[p].cat]

\* C25: a category in which the job has no tasks counts as processed: no task
\* changes, and the runner goes on to the next category, or returns success
\* after the last one
C25_EmptyCategorySucceeds ==
    [][\A p \in Procs : FetchesEmptyCategory(p) =>
          /\ tasks' = tasks
          /\ IF proc[p].cat < Len(Categories)
             THEN /\ proc'[p].pc = "category"
                  /\ proc'[p].cat = proc[p].cat + 1
             ELSE /\ proc'[p].pc = "job_final"
                  /\ proc'[p].success]_vars

\* a job with a script task and a video task, and so with no image and no
\* audio task, has completed with both tasks completed
C25_Witness ==
    \E j \in JobIds :
        /\ jobs[j].status = "completed"
        /\ \A t \in TasksOf(j) : tasks[t].category \notin {"image", "audio"}
        /\ \E t \in TasksOf(j) :
              tasks[t].category = "video" /\ tasks[t].status = "completed"
        /\ \E t \in TasksOf(j) :
              tasks[t].category = "script" /\ tasks[t].status = "completed"

\* the instance get_agent returns for a name, NULL for None
AgentNamed(reg, instance_name) ==
    IF get_agent(reg, instance_name) = 0 THEN <<>>
    ELSE <<reg[get_agent(reg, instance_name)]>>

\* C26: register_agent_instance(key, agent) makes get_agent(key) return that
\* agent, whoever was registered under the key before, and appends the agent
\* to the list of its category; no other name and no other category changes,
\* so that each category lists its providers in registration order
C26_RegisterAgentInstance ==
    [][(unit.op = "register_agent_instance" /\ unit'.reg # unit.reg) =>
          LET key == unit'.instance_name
              agent == unit'.agent
          IN  /\ AgentNamed(unit'.reg, key) = <<agent>>
              /\ \A a \in BoundedInstances :
                    a.key # key =>
                        AgentNamed(unit'.reg, a.key) = AgentNamed(unit.reg, a.key)
              /\ get_agents_by_category(unit'.reg, agent.category) =
                     Append(get_agents_by_category(unit.reg, agent.category), agent)
              /\ \A c \in CategorySet :
                    c # agent.category =>
                        get_agents_by_category(unit'.reg, c) =
                            get_agents_by_category(unit.reg, c)]_vars

\* a name has been registered twice, for two different instances, and
\* get_agent returns the second
C26_Witness ==
    /\ unit.op = "register_agent_instance"
    /\ Len(unit.reg) = 2
    /\ unit.reg[1].key = unit.reg[2].key
    /\ unit.reg[1] # unit.reg[2]
    /\ AgentNamed(unit.reg, unit.instance_name) = <<unit.reg[2]>>
    /\ get_agents_by_category(unit.reg, unit.agent.category) = unit.reg

\* this step belongs to a process_job call: create_job leaves proc alone
ProcessJobMoves == proc' # proc

\* the columns create_job gave a task row and process_job has no write for
SameRow(a, b) ==
    /\ a.job_id = b.job_id
    /\ a.task_name = b.task_name
    /\ a.category = b.category
    /\ a.sequence_order = b.sequence_order
    /\ a.preferred_agent = b.preferred_agent

\* C27: process_job neither creates nor deletes a task row, so a job keeps
\* exactly the tasks create_job gave it, whether it completes or fails; and
\* every failed task carries an error message
C27_TaskRowsKept ==
    /\ [](\A t \in TaskIds : tasks[t].status = "failed" => tasks[t].error_message # NULL)
    /\ [][ProcessJobMoves =>
             /\ Len(tasks') = Len(tasks)
             /\ \A t \in TaskIds : SameRow(tasks'[t], tasks[t])]_vars

\* a job has failed with both the tasks create_job gave it still there: the
\* first failed with its error message, the second still pending
C27_Witness ==
    \E j \in JobIds :
        /\ jobs[j].status = "failed"
        /\ Cardinality(TasksOf(j)) = 2
        /\ \E t, u \in TasksOf(j) :
              /\ tasks[t].status = "failed"
              /\ tasks[t].error_message = "error"
              /\ tasks[u].status = "pending"

\* find_best_agent has returned twice for the same task
SelectedAgain == unit.op = "find_best_agent" /\ unit.again # "not_called"

ReadsOwnRows(p) ==
    \A k \in 1..Len(proc[p].list) : tasks[proc[p].list[k].id].job_id = proc[p].job

\* a step of p's call leaves the other jobs and their tasks as they are
WritesOwnRows(p) ==
    proc'[p] # proc[p] =>
        /\ \A j \in JobIds : j # proc'[p].job => jobs'[j] = jobs[j]
        /\ \A t \in TaskIds : tasks[t].job_id # proc'[p].job => tasks'[t] = tasks[t]

\* p's call has returned and no persistence call has failed: alone, the call
\* would have completed the job and all its tasks
ReturnedUndisturbed(p) ==
    proc[p].pc = "idle" /\ proc[p].ret # "none" /\ dbFailures = 0

\* C29: with process_job running for two distinct jobs at once, whatever the
\* interleaving of their persistence calls, a call reads only rows of its own
\* job and writes only its own job and that job's tasks, and a call that no
\* persistence failure disturbs ends as it would alone: job and tasks completed
C29_ConcurrentJobsDoNotInterfere ==
    /\ [](\A p \in Procs : ReadsOwnRows(p))
    /\ [][\A p \in Procs : WritesOwnRows(p)]_vars
    /\ [](\A p \in Procs : ReturnedUndisturbed(p) =>
             /\ proc[p].ret = "true"
             /\ jobs[proc[p].job].status = "completed"
             /\ \A t \in TasksOf(proc[p].job) :
                   /\ tasks[t].status = "completed"
                   /\ tasks[t].parameters.outputs = "placeholder")

\* both calls are in the middle of a task, each of its own job, the two jobs
\* having tasks of the same category
C29_Witness ==
    /\ proc[MainProc].pc = "task_result"
    /\ proc["other"].pc = "task_params"
    /\ tasks[CurrentTask(proc[MainProc]).id].job_id = 1
    /\ tasks[CurrentTask(proc["other"]).id].job_id = 2
    /\ tasks[CurrentTask(proc[MainProc]).id].category
          = tasks[CurrentTask(proc["other"]).id].category
    /\ tasks[CurrentTask(proc[MainProc]).id].status = "in_progress"
    /\ tasks[CurrentTask(proc["other"]).id].status = "completed"

\* C30: a task that is in progress, completed or failed has started_at set,
\* and a task that is completed or failed has completed_at set
C30_TimestampsKept ==
    \A t \in TaskIds :
        /\ tasks[t].status \in {"in_progress", "completed", "failed"}
               => tasks[t].started_at # NULL
        /\ tasks[t].status \in {"completed", "failed"}
               => tasks[t].completed_at # NULL

\* C31: for an image task that the premium image provider validates with its
\* API key configured, automatic scoring selects the premium provider, whatever
\* the other image providers score on the task's name and wherever they are
\* registered
C31_PremiumProviderWins ==
    (/\ Selected /\ unit.task.preferred_agent = NULL
     /\ unit.task.category = "image"
     /\ \E i \in 1..Len(unit.registry) :
           /\ unit.registry[i].freepik /\ unit.registry[i].api_key
           /\ unit.registry[i].validates = "yes")
        => unit.result = "freepik_mystic"

\* the score of a provider as the selector compares it: the tenths of the
\* category match, of an LLM-powered class, of an API key, of the premium image
\* provider with its key on an image task and of the specializations, at most 10
CappedScore(agent, task) ==
    LET sum == (IF agent.category = task.category THEN 5 ELSE 0)
                 + (IF agent.llm THEN 3 ELSE 0)
                 + (IF agent.api_key THEN 2 ELSE 0)
                 + (IF task.category = "image" /\ agent.freepik /\ agent.api_key
                    THEN 3 ELSE 0)
                 + agent.bonus
    IN  IF sum > 10 THEN 10 ELSE sum

\* C32: when selection is automatic and some provider of the task's category
\* validates the task, the provider returned is, among those that validate,
\* the earliest registered of the ones whose capped score is maximal
C32_MaximalScoreEarliestWins ==
    (Selected /\ ~PreferredUsable(unit.registry, unit.task)
              /\ ValidCategoryAgents(unit.registry, unit.task) # <<>>)
        => LET valid == ValidCategoryAgents(unit.registry, unit.task)
           IN  \E i \in 1..Len(valid) :
                  /\ unit.result = valid[i].key
                  /\ \A k \in 1..Len(valid) :
                        CappedScore(valid[i], unit.task) >= CappedScore(valid[k], unit.task)
                  /\ \A k \in 1..(i - 1) :
                        CappedScore(valid[k], unit.task) < CappedScore(valid[i], unit.task)

\* three image providers validate the task; the second and the third share
\* the maximal capped score, the third with more before the cap, and the
\* second is returned
C32_Witness ==
    /\ Selected
    /\ unit.task.preferred_agent = NULL
    /\ LET valid == ValidCategoryAgents(unit.registry, unit.task)
       IN  /\ Len(valid) = 3
           /\ CappedScore(valid[1], unit.task) < CappedScore(valid[2], unit.task)
           /\ CappedScore(valid[2], unit.task) = CappedScore(valid[3], unit.task)
           /\ valid[3].freepik /\ valid[3].api_key
           /\ unit.result = valid[2].key

\* C33: with two process_job calls for the same job interleaved, a job whose
\* status is completed has no task in any status but completed
C33_CompletedJobWhileInterleaved ==
    \A t \in TaskIds :
        jobs[tasks[t].job_id].status = "completed" => tasks[t].status = "completed"

\* C34: once create_job has returned or raised, the job row it wrote, if it
\* wrote one, has one task row per blueprint of the chosen template
C34_CreateJobAllOrNothing ==
    (created.result # "none" /\ created.job # 0)
        => /\ created.job \in JobIds
           /\ Cardinality(TasksOf(created.job)) = Len(created.blueprints)

\* C35: a step of process_job leaves every task's inputs and requirements,
\* name, category, sequence order and job id as they are, so that after any
\* number of calls they are as create_job wrote them
C35_ExecutionKeepsInputs ==
    [][ProcessJobMoves =>
          \A t \in TaskIds :
              /\ t \in 1..Len(tasks')
              /\ tasks'[t].parameters.inputs = tasks[t].parameters.inputs
              /\ tasks'[t].parameters.requirements = tasks[t].parameters.requirements
              /\ tasks'[t].task_name = tasks[t].task_name
              /\ tasks'[t].category = tasks[t].category
              /\ tasks'[t].sequence_order = tasks[t].sequence_order
              /\ tasks'[t].job_id = tasks[t].job_id]_vars

\* a task has been executed in two process_job calls, its outputs are
\* written and its inputs still carry the request and the job it belongs to
C35_Witness ==
    \E t \in TaskIds :
        /\ calls >= 3
        /\ tasks[t].status = "completed"
        /\ tasks[t].parameters.outputs = "placeholder"
        /\ tasks[t].parameters.inputs.user_request = {"youtube", "tutorial"}
        /\ tasks[t].parameters.inputs.job_id = tasks[t].job_id
        /\ proc[MainProc].pc = "task_params"
        /\ CurrentTask(proc[MainProc]).id = t

\* DatabaseManager.get_next_pending_task: WHERE job_id = $1 AND status =
\* 'pending' ORDER BY the category's rank, sequence_order LIMIT 1; the id of
\* the row, 0 for None
get_next_pending_task(ts, job_id) ==
    LET pending == {t \in 1..Len(ts) : ts[t].job_id = job_id /\ ts[t].status = "pending"}
    IN  IF pending = {} THEN 0
        ELSE CHOOSE t \in pending :
                 \A u \in pending : u # t => ~Precedes(ts[u], ts[t]) /\ (Precedes(ts[t], ts[u]) \/ t < u)

\* this step is p's runner marking its current task in_progress
MarksInProgress(p) ==
    /\ proc[p].pc = "task_start"
    /\ proc'[p].pc = "task_result"

\* C36: while no task of the job has failed, the task the runner marks
\* in_progress is the one get_next_pending_task returns at that point, and
\* get_next_pending_task returns none exactly when the job has no pending task
C36_NextPendingIsRunnersNext ==
    [][\A p \in Procs :
          (/\ MarksInProgress(p)
           /\ \A t \in TasksOf(proc[p].job) : tasks[t].status # "failed")
              => /\ get_next_pending_task(tasks, proc[p].job) = CurrentTask(proc[p]).id
                 /\ (get_next_pending_task(tasks', proc[p].job) = 0
                        <=> \A t \in TasksOf(proc[p].job) : tasks'[t].status # "pending")]_vars

\* C37: after any register_agent_instance calls, every provider the category
\* lists enumerate is the one get_agent returns for its name, and it is
\* enumerated once
C37_IndexesAgree ==
    unit.op = "register_agent_instance" =>
        \A c \in CategorySet :
            LET listed == get_agents_by_category(unit.reg, c)
            IN  \A i \in 1..Len(listed) :
                   /\ AgentNamed(unit.reg, listed[i].key) = <<listed[i]>>
                   /\ \A k \in 1..Len(listed) : listed[k].key = listed[i].key => k = i

\* the numbered bold lines of the file that follow a tasks-section heading
TaskLines(lines) == {i \in 1..Len(lines) : TaskLineInSection(lines, i)}

\* the tasks-section heading that line i stands under
SectionOf(lines, i) ==
    CHOOSE h \in 1..(i - 1) :
        /\ lines[h].kind = "tasks_heading"
        /\ \A g \in (h + 1)..(i - 1) : lines[g].kind # "tasks_heading"

\* the category a tasks-section heading stands for: the first of script,
\* image, audio, video that its text holds, script when it holds none
HeadingCategory(arg) ==
    IF heading_words(arg) = {} THEN "script"
    ELSE CHOOSE c \in heading_words(arg) :
             \A d \in heading_words(arg) : CategoryRank(c) <= CategoryRank(d)

\* C38: parse_template returns one blueprint per numbered bold line that
\* follows a tasks-section heading, in the order of the lines, named as the
\* line and of the category of its section, the last line's blueprint
\* included; numbered bold lines above the first heading give no blueprint
C38_OneBlueprintPerTaskLine ==
    Parsed =>
        /\ Len(unit.result.tasks) = Cardinality(TaskLines(unit.lines))
        /\ \A i \in TaskLines(unit.lines) :
              LET m == Cardinality({h \in TaskLines(unit.lines) : h <= i})
              IN  /\ unit.result.tasks[m].name = unit.lines[i].arg
                  /\ unit.result.tasks[m].category =
                         HeadingCategory(unit.lines[SectionOf(unit.lines, i)].arg)

\* a file with a numbered line above its heading and two differently named
\* ones below it has been parsed into two blueprints
C38_Witness ==
    /\ Parsed
    /\ Len(unit.lines) = 4
    /\ unit.lines[1].kind = "task"
    /\ unit.lines[2].kind = "tasks_heading"
    /\ unit.lines[3].kind = "task"
    /\ unit.lines[4].kind = "task"
    /\ unit.lines[3].arg # unit.lines[4].arg
    /\ Len(unit.result.tasks) = 2
    /\ unit.result.tasks[2].name = unit.lines[4].arg

\* C39: a tasks-section heading makes the first of script, image, audio,
\* video that its text holds the active category, script when it holds none,
\* and every blueprint started before the next heading is of that category
C39_HeadingFixesCategory ==
    Parsed =>
        \A i \in TaskLines(unit.lines) :
            LET m == Cardinality({h \in TaskLines(unit.lines) : h <= i})
                words == heading_words(unit.lines[SectionOf(unit.lines, i)].arg)
            IN  /\ m <= Len(unit.result.tasks)
                /\ unit.result.tasks[m].category =
                       IF "script" \in words THEN "script"
                       ELSE IF "image" \in words THEN "image"
                       ELSE IF "audio" \in words THEN "audio"
                       ELSE IF "video" \in words THEN "video"
                       ELSE "script"

\* a heading that holds video and script and a heading that holds no category
\* word have each given the blueprint below them the category script
C39_Witness ==
    /\ Parsed
    /\ Len(unit.lines) = 4
    /\ unit.lines[1] = Line(0, "tasks_heading", "Video Script")
    /\ unit.lines[2].kind = "task"
    /\ unit.lines[3] = Line(0, "tasks_heading", "Plain")
    /\ unit.lines[4].kind = "task"
    /\ unit.result.tasks[1].category = "script"
    /\ unit.result.tasks[2].category = "script"

\* C40: a job that is in_progress gets to completed or failed unless a
\* persistence call raises; in one process_job call no task is started twice;
\* and when a call that no raising call disturbed returns, no task of the job
\* is in_progress
C40_ProcessJobTerminates ==
    /\ \A j \in 1..MaxJobs :
          (dbFailures = 0 /\ j \in JobIds /\ jobs[j].status = "in_progress")
              ~> \/ dbFailures # 0
                 \/ j \in JobIds /\ jobs[j].status \in {"completed", "failed"}
    /\ [](\A p \in Procs : \A i, k \in 1..Len(proc[p].started) :
              proc[p].started[i] = proc[p].started[k] => i = k)
    /\ [][\A p \in Procs : (ReturnsNow(p) /\ dbFailures' = 0) =>
              \A t \in TasksOf(proc[p].job) : tasks'[t].status # "in_progress"]_vars

\* a process_job call has returned True for a job of two tasks, both started
\* in that call, with no persistence call having raised
C40_Witness ==
    /\ dbFailures = 0
    /\ proc[MainProc].pc = "idle"
    /\ proc[MainProc].ret = "true"
    /\ Len(proc[MainProc].started) = 2
    /\ jobs[proc[MainProc].job].status = "completed"
    /\ \A t \in TasksOf(proc[MainProc].job) : tasks[t].status = "completed"

====
